---- MODULE Spec2Model ----
(***************************************************************************)
(* Model of the LCS metrics engine (src/src/etl/app).                      *)
(*                                                                         *)
(* Per-customer recompute: routes.calculate_metrics creates a              *)
(* MetricsCalculator on a request-scoped SQLAlchemy session                *)
(* (autocommit=False, autoflush=False) and calls calculate_all, which      *)
(* loads the tenant's transactions once, then computes and saves one       *)
(* CustomerMetrics object per customer, committing every BatchSize saved   *)
(* customers and once after the loop.                                      *)
(*                                                                         *)
(* The session is the library's: objects added or modified are written     *)
(* only by commit (no autoflush); a commit that fails rolls the            *)
(* transaction back, drops what was pending, and leaves the session        *)
(* unusable until rollback(), which calculate_all never calls, so every    *)
(* later statement and the final commit raise.                             *)
(***************************************************************************)
EXTENDS Integers, Sequences, FiniteSets, TLC

\* ---------------------------------------------------------------- bounds
NumTenants == 2
SmallCust == 2
ExtraCust == 1
MaxVer == 2
MaxRuns == 2
MaxWorkers == 2
MaxOrders == 3
MaxProducts == 3
MaxQty == 2
MaxTransactions == 2

\* ------------------------------------------------------ program constants
BatchSize == 100

Tenants == 1..NumTenants
UnknownTenant == NumTenants + 1
Workers == 1..MaxWorkers

\* The seven metric families _calculate_customer_metrics merges into one dict.
Fields == {"basic", "rfm", "temporal", "lifecycle", "value", "predictive", "product"}

\* A column that was never written (SQL NULL).
Null == <<>>

\* A fact snapshot of one tenant as _load_transaction_data returns it:
\* customers 1..n have transactions (ORDER BY customer_id), the customers in
\* bad have facts on which the computation raises, ver identifies the facts.
SmallSnapshots ==
    {s \in [n : 0..SmallCust, bad : {{}, {1}}, ver : 1..MaxVer] : s.bad \subseteq 1..s.n}

LargeSnapshots ==
    [n : {BatchSize + ExtraCust}, bad : {{}, {1}}, ver : 1..MaxVer]

VARIABLES
    customer_metrics,   \* the committed rows of table customer_metrics
    nextId,             \* the table's autoincrement counter
    clock,              \* requests served so far; utcnow() of a request is its number
    run,                \* per worker thread: the request it serves and its session
    everCommitted,      \* history: the (tenant, customer) keys some commit has written
    product_metrics,    \* the committed rows of table product_metrics
    product_table_ok,   \* whether the database accepts the upsert into product_metrics
    agg,                \* the last aggregate calculate_all and what it returned
    eval                \* a metric function, the inputs it is applied to, its results

vars == <<customer_metrics, nextId, clock, run, everCommitted,
          product_metrics, product_table_ok, agg, eval>>

aggVars == <<product_metrics, product_table_ok, agg>>

customerVars == <<customer_metrics, nextId, run, everCommitted>>

\* ------------------------------------------------------- metric families
\* Each family is a pure function of the customer's own transactions
\* (customer c, facts version ver); the value family also reads all_df.
_calc_basic_metrics(snap, c) == [f \in {"basic"} |-> <<c, snap.ver>>]

_calc_rfm_metrics(snap, c) == [f \in {"rfm"} |-> <<c, snap.ver>>]

_calc_temporal_metrics(snap, c) == [f \in {"temporal"} |-> <<c, snap.ver>>]

_calc_lifecycle_metrics(snap, c) == [f \in {"lifecycle"} |-> <<c, snap.ver>>]

_calc_value_metrics(snap, c) == [f \in {"value"} |-> <<c, snap.ver, snap.n>>]

_calc_predictive_metrics(snap, c) == [f \in {"predictive"} |-> <<c, snap.ver>>]

_calc_product_metrics(snap, c) == [f \in {"product"} |-> <<c, snap.ver>>]

\* dict.update: the keys of upd override those of d.
DictUpdate(d, upd) == upd @@ d

_calculate_customer_metrics(snap, c) ==
    LET m0 == <<>>
        m1 == DictUpdate(m0, _calc_basic_metrics(snap, c))
        m2 == DictUpdate(m1, _calc_rfm_metrics(snap, c))
        m3 == DictUpdate(m2, _calc_temporal_metrics(snap, c))
        m4 == DictUpdate(m3, _calc_lifecycle_metrics(snap, c))
        m5 == DictUpdate(m4, _calc_value_metrics(snap, c))
        m6 == DictUpdate(m5, _calc_predictive_metrics(snap, c))
    IN  DictUpdate(m6, _calc_product_metrics(snap, c))

\* ------------------------------------------------------------ the session
\* Faulty variant of QueryExisting, used to test the properties below: the filter on tenant_id is missing.
QueryExistingAnyTenant(table, t, c) ==
    {r \in table : r.customer_id = c}

\* self.db.query(CustomerMetrics).filter(tenant_id == ..., customer_id == ...):
\* the committed rows with this key (the session never flushes before a query).
QueryExisting(table, t, c) ==
    {r \in table : r.tenant_id = t /\ r.customer_id = c}

\* .first(): the row with the least primary key, or none.
First(rows) == {r \in rows : \A q \in rows : r.id <= q.id}

\* _save_metrics: the object left in the session for customer c. id = 0 marks a
\* new object (db.add, an INSERT at the next commit); otherwise the loaded row
\* whose attributes were set (an UPDATE of the row with that primary key).
\* attrs are the keys of the metrics dict, written in both branches, together
\* with calculated_at.
_save_metrics(table, t, c, metrics, now) ==
    LET existing == First(QueryExisting(table, t, c))
    IN  [customer_id |-> c,
         id |-> IF existing # {} THEN (CHOOSE r \in existing : TRUE).id ELSE 0,
         attrs |-> metrics,
         calculated_at |-> now]

\* UniqueConstraint("tenant_id", "customer_id"): an INSERT of a key the table
\* already holds is rejected.
UniqueViolation(table, t, pending) ==
    \E o \in pending : o.id = 0 /\ QueryExisting(table, t, o.customer_id) # {}

\* The row an INSERT of a new object creates: columns the constructor was not
\* given stay NULL; the primary key is drawn from the autoincrement counter.
InsertRow(o, t, rank, nid) ==
    [id |-> nid + rank,
     tenant_id |-> t,
     customer_id |-> o.customer_id,
     m |-> [f \in Fields |-> IF f \in DOMAIN o.attrs THEN o.attrs[f] ELSE Null],
     calculated_at |-> o.calculated_at]

\* Faulty variant of UpdateRow, used to test the properties below: the new values are merged into the stored record, a
\* column that already holds a value keeps it.
UpdateRowMerge(r, o) ==
    [r EXCEPT !.m = [f \in Fields |-> IF r.m[f] = Null /\ f \in DOMAIN o.attrs
                                      THEN o.attrs[f] ELSE r.m[f]],
              !.calculated_at = o.calculated_at]

\* The row an UPDATE of a modified object leaves: the attributes that were set
\* are overwritten, the others keep their stored value.
UpdateRow(r, o) ==
    [r EXCEPT !.m = [f \in Fields |-> IF f \in DOMAIN o.attrs THEN o.attrs[f] ELSE r.m[f]],
              !.calculated_at = o.calculated_at]

\* Faulty variant of Flush, used to test the properties below: the tenant's rows that the run did not touch are deleted.
FlushReplacingTenant(table, t, pending, nid) ==
    LET news == {o \in pending : o.id = 0}
        Rank(o) == Cardinality({p \in news : p.customer_id < o.customer_id})
        Touched(r) == {o \in pending : o.id = r.id}
    IN  {UpdateRow(r, CHOOSE o \in Touched(r) : TRUE) : r \in {q \in table : Touched(q) # {}}}
        \cup {r \in table : r.tenant_id # t}
        \cup {InsertRow(o, t, Rank(o), nid) : o \in news}

\* The table after the flush of a commit writes every pending object.
Flush(table, t, pending, nid) ==
    LET news == {o \in pending : o.id = 0}
        Rank(o) == Cardinality({p \in news : p.customer_id < o.customer_id})
        Touched(r) == {o \in pending : o.id = r.id}
    IN  {IF Touched(r) # {} THEN UpdateRow(r, CHOOSE o \in Touched(r) : TRUE) ELSE r : r \in table}
        \cup {InsertRow(o, t, Rank(o), nid) : o \in news}

\* Faulty variant of BatchCommitDue, used to test the properties below: the batch is one customer too long.
BatchCommitDueLate(calculated) == calculated % (BatchSize + 1) = 0

\* if calculated % 100 == 0
BatchCommitDue(calculated) == calculated % BatchSize = 0

\* Faulty variant of IsEmpty, used to test the properties below: the early return for an empty frame is missing.
IsEmptyNever(snap) == FALSE

\* if df.empty
IsEmpty(snap) == snap.n = 0

\* The order of df["customer_id"].unique(): the query sorts by customer_id.
customer_ids(snap) == [i \in 1..snap.n |-> i]

\* No aggregate calculate_all has run yet.
NoAggregate ==
    [module |-> "none", tenant |-> 0, ver |-> 0, failed |-> {}, status |-> "none",
     delivered |-> {}, now |-> 0]

\* No metric function is being evaluated.
NoEval == [op |-> "none", in |-> Null, out |-> Null, done |-> TRUE]

NoResult == [status |-> "none", customers |-> 0, errors |-> 0]

Idle ==
    [pc |-> "idle", tenant |-> 0, snap |-> [n |-> 0, bad |-> {}, ver |-> 1],
     idx |-> 0, calculated |-> 0, errors |-> 0, pending |-> {}, usable |-> TRUE,
     now |-> 0, loaded |-> FALSE, committed |-> {}, commitFailed |-> FALSE,
     result |-> NoResult]

Init ==
    /\ customer_metrics = {}
    /\ nextId = 1
    /\ clock = 0
    /\ run = [w \in Workers |-> Idle]
    /\ everCommitted = {}
    /\ product_metrics = {}
    /\ product_table_ok = FALSE
    /\ agg = NoAggregate
    /\ eval = NoEval

\* A worker thread is free to take a request.
Free(w) == run[w].pc # "loop" /\ clock < MaxRuns

\* routes.calculate_metrics for a tenant id that has no Tenant row: 404.
TenantNotFound(w) ==
    /\ Free(w)
    /\ clock' = clock + 1
    /\ run' = [run EXCEPT ![w] = [Idle EXCEPT !.pc = "done", !.tenant = UnknownTenant,
                                              !.now = clock + 1,
                                              !.result = [NoResult EXCEPT !.status = "http_404"]]]
    /\ UNCHANGED <<customer_metrics, nextId, everCommitted, aggVars, eval>>

\* _load_transaction_data raises (the fact store is unreachable): calculate_all
\* raises before the loop and the route answers 500.
LoadFails(w, t) ==
    /\ Free(w)
    /\ clock' = clock + 1
    /\ run' = [run EXCEPT ![w] = [Idle EXCEPT !.pc = "done", !.tenant = t, !.now = clock + 1,
                                              !.result = [NoResult EXCEPT !.status = "http_500"]]]
    /\ UNCHANGED <<customer_metrics, nextId, everCommitted, aggVars, eval>>

\* The result calculate_all reports for an empty frame, as the route maps it
\* (a missing "errors" key reads 0).
EmptyResult(snap) ==
    IF IsEmpty(snap) THEN [status |-> "no_data", customers |-> 0, errors |-> 0]
    ELSE NoResult

\* calculate_all up to the loop: the snapshot is loaded once; an empty frame
\* returns no_data at once, otherwise the loop starts with both counters 0.
StartRun(w, t, snap) ==
    /\ Free(w)
    /\ clock' = clock + 1
    /\ run' = [run EXCEPT ![w] = [Idle EXCEPT !.pc = IF IsEmpty(snap) THEN "done" ELSE "loop",
                                              !.tenant = t, !.snap = snap, !.now = clock + 1,
                                              !.loaded = TRUE,
                                              !.result = EmptyResult(snap)]]
    /\ UNCHANGED <<customer_metrics, nextId, everCommitted, aggVars, eval>>

\* Faulty variant of OnCustomerError, used to test the properties below: the exception ends the loop (break).
OnCustomerErrorBreak(r) == [r EXCEPT !.idx = r.snap.n, !.errors = @ + 1]

\* Faulty variant of OnCustomerError, used to test the properties below: the exception is swallowed without being counted.
OnCustomerErrorUncounted(r) == [r EXCEPT !.idx = @ + 1]

\* except Exception: errors += 1, and the loop goes on with the next customer.
OnCustomerError(r) == [r EXCEPT !.idx = @ + 1, !.errors = @ + 1]

\* calculated += 1 after _save_metrics returned.
OnCustomerSaved(r, obj) ==
    [r EXCEPT !.idx = @ + 1, !.calculated = @ + 1, !.pending = @ \cup {obj}]

\* self.db.commit() in session r on the committed table: dbOk is whether the
\* database accepts the writes. A failed commit rolls back, drops the pending
\* objects and leaves the session unusable.
CommitSucceeds(table, r, dbOk) == dbOk /\ r.usable /\ ~UniqueViolation(table, r.tenant, r.pending)

AfterCommit(r, ok) ==
    IF ok
    THEN [r EXCEPT !.pending = {},
                   !.committed = @ \cup {o.customer_id : o \in r.pending}]
    ELSE [r EXCEPT !.pending = {}, !.usable = FALSE, !.commitFailed = TRUE]

\* One iteration of the loop of calculate_all, for the next customer id.
\* The computation raises on a customer with bad facts, and on any customer
\* once the session is unusable (the product query is a statement on it).
LoopIteration(w) ==
    LET r == run[w]
        c == customer_ids(r.snap)[r.idx + 1]
        raises == c \in r.snap.bad \/ ~r.usable
        obj == _save_metrics(customer_metrics, r.tenant, c,
                             _calculate_customer_metrics(r.snap, c), r.now)
        saved == OnCustomerSaved(r, obj)
    IN  /\ r.pc = "loop"
        /\ r.idx < r.snap.n
        /\ IF raises
           THEN /\ run' = [run EXCEPT ![w] = OnCustomerError(r)]
                /\ UNCHANGED <<customer_metrics, nextId, everCommitted>>
           ELSE IF ~BatchCommitDue(saved.calculated)
           THEN /\ run' = [run EXCEPT ![w] = saved]
                /\ UNCHANGED <<customer_metrics, nextId, everCommitted>>
           ELSE \E dbOk \in BOOLEAN :
                  LET ok == CommitSucceeds(customer_metrics, saved, dbOk)
                  IN  /\ run' = [run EXCEPT ![w] =
                                   IF ok THEN AfterCommit(saved, TRUE)
                                   ELSE [AfterCommit(saved, FALSE) EXCEPT !.errors = @ + 1]]
                      /\ customer_metrics' =
                           IF ok THEN Flush(customer_metrics, r.tenant, saved.pending, nextId)
                           ELSE customer_metrics
                      /\ nextId' = IF ok THEN nextId + Cardinality({o \in saved.pending : o.id = 0})
                                   ELSE nextId
                      /\ everCommitted' =
                           IF ok THEN everCommitted \cup {<<r.tenant, o.customer_id>> : o \in saved.pending}
                           ELSE everCommitted
        /\ UNCHANGED <<clock, aggVars, eval>>

\* The result of a run whose final commit succeeded, as the route maps it.
SuccessResult(r) == [status |-> "success", customers |-> r.calculated, errors |-> r.errors]

\* After the loop: the final self.db.commit(), then the return. When the
\* commit raises, calculate_all raises, the route answers 500, and closing
\* the session drops what was pending.
FinishRun(w) ==
    LET r == run[w]
    IN  /\ r.pc = "loop"
        /\ r.idx = r.snap.n
        /\ \E dbOk \in BOOLEAN :
             LET ok == CommitSucceeds(customer_metrics, r, dbOk)
             IN  /\ run' = [run EXCEPT ![w] =
                              [AfterCommit(r, ok) EXCEPT
                                 !.pc = "done",
                                 !.result = IF ok THEN SuccessResult(r)
                                            ELSE [NoResult EXCEPT !.status = "http_500"]]]
                 /\ customer_metrics' =
                      IF ok THEN Flush(customer_metrics, r.tenant, r.pending, nextId)
                      ELSE customer_metrics
                 /\ nextId' = IF ok THEN nextId + Cardinality({o \in r.pending : o.id = 0})
                              ELSE nextId
                 /\ everCommitted' =
                      IF ok THEN everCommitted \cup {<<r.tenant, o.customer_id>> : o \in r.pending}
                      ELSE everCommitted
        /\ UNCHANGED <<clock, aggVars, eval>>

\* ------------------------------------------------------- specifications
\* Requests arrive one after another (a single client): a request is taken
\* only when no run is in its loop, and always by the first worker.
NoneRunning == \A w \in Workers : run[w].pc # "loop"

Next ==
    \/ NoneRunning /\ TenantNotFound(1)
    \/ NoneRunning /\ \E t \in Tenants : LoadFails(1, t)
    \/ NoneRunning /\ \E t \in Tenants, snap \in SmallSnapshots : StartRun(1, t, snap)
    \/ LoopIteration(1)
    \/ FinishRun(1)

Spec == Init /\ [][Next]_vars

\* The same, for one tenant whose snapshots hold more customers than a batch.
NextBatch ==
    \/ NoneRunning /\ \E snap \in LargeSnapshots : StartRun(1, 1, snap)
    \/ LoopIteration(1)
    \/ FinishRun(1)

SpecBatch == Init /\ [][NextBatch]_vars

\* Overlapping requests: the route takes no lock and checks for no running
\* run, so any free worker thread starts a run for any tenant at any time.
NextConc ==
    \/ \E w \in Workers : TenantNotFound(w)
    \/ \E w \in Workers, t \in Tenants : LoadFails(w, t)
    \/ \E w \in Workers, t \in Tenants, snap \in SmallSnapshots : StartRun(w, t, snap)
    \/ \E w \in Workers : LoopIteration(w)
    \/ \E w \in Workers : FinishRun(w)

SpecConc == Init /\ [][NextConc]_vars

\* -------------------------------------------------- aggregate analytics
AggModules == {"product", "discount", "time"}

\* The keys of the results dict of each module's calculate_all, in the order
\* the dict literal evaluates them.
ProductMetricNames ==
    <<"category_stats", "top_products", "category_trends", "basket_analysis",
      "product_abc", "cross_sell">>

DiscountMetricNames ==
    <<"overall_stats", "by_category", "by_customer_segment", "discount_brackets",
      "discount_trends", "discount_effectiveness", "customer_discount_behavior",
      "product_discount_analysis", "margin_impact">>

TimeMetricNames ==
    <<"day_of_week", "hour_of_day", "monthly_trends", "weekly_trends", "seasonality",
      "cohort_retention", "cohort_revenue", "yoy_comparison", "peak_periods">>

Range(seq) == {seq[i] : i \in 1..Len(seq)}

\* The queries that may fail in one run: none, or one metric's query.
FailureChoices(names) == {{}} \cup {{m} : m \in Range(names)}

\* results = {name: self.calc_...(), ...}: the calls run in order inside one
\* dict literal with no try around any of them, so the first query that
\* raises ends calculate_all with no results at all.
ComputeResults(names, failing, ver) ==
    IF Range(names) \cap failing # {}
    THEN [raised |-> TRUE, results |-> <<>>]
    ELSE [raised |-> FALSE, results |-> [m \in Range(names) |-> <<m, ver>>]]

\* INSERT ... ON CONFLICT (tenant_id, metric_name) DO UPDATE: the row of that
\* key is replaced by the new document.
Upsert(rows, t, name, data, now) ==
    {r \in rows : ~(r.tenant_id = t /\ r.metric_name = name)}
    \cup {[tenant_id |-> t, metric_name |-> name, metric_data |-> data,
           calculated_at |-> now]}

\* _save_product_metrics up to its commit: one upsert per result; a statement
\* the database rejects is swallowed by "except Exception: pass".
RECURSIVE SaveLoop(_, _, _, _, _, _)
SaveLoop(rows, t, names, results, now, accepted) ==
    IF names = <<>> THEN rows
    ELSE SaveLoop(IF accepted
                  THEN Upsert(rows, t, Head(names), results[Head(names)], now)
                  ELSE rows,
                  t, Tail(names), results, now, accepted)

\* ProductMetricsCalculator.calculate_all: compute, save, commit, return.
ProductCalculateAll(t, ver, failing, dbOk) ==
    LET c == ComputeResults(ProductMetricNames, failing, ver)
        saved == SaveLoop(product_metrics, t, ProductMetricNames, c.results, clock + 1,
                          product_table_ok)
        ok == ~c.raised /\ dbOk
    IN  /\ clock < MaxRuns
        /\ clock' = clock + 1
        /\ product_metrics' = IF ok THEN saved ELSE product_metrics
        /\ agg' = [module |-> "product", tenant |-> t, ver |-> ver, failed |-> failing,
                   status |-> IF ok THEN "success" ELSE "raised",
                   delivered |-> IF ok THEN DOMAIN c.results ELSE {},
                   now |-> clock + 1]
        /\ UNCHANGED <<customerVars, product_table_ok, eval>>

\* DiscountMetricsCalculator.calculate_all: compute, return the count; the
\* results are not stored.
DiscountCalculateAll(t, ver, failing) ==
    LET c == ComputeResults(DiscountMetricNames, failing, ver)
    IN  /\ clock < MaxRuns
        /\ clock' = clock + 1
        /\ agg' = [module |-> "discount", tenant |-> t, ver |-> ver, failed |-> failing,
                   status |-> IF c.raised THEN "raised" ELSE "success",
                   delivered |-> IF c.raised THEN {} ELSE DOMAIN c.results,
                   now |-> clock + 1]
        /\ UNCHANGED <<customerVars, product_metrics, product_table_ok, eval>>

\* TimeMetricsCalculator.calculate_all: as the discount module.
TimeCalculateAll(t, ver, failing) ==
    LET c == ComputeResults(TimeMetricNames, failing, ver)
    IN  /\ clock < MaxRuns
        /\ clock' = clock + 1
        /\ agg' = [module |-> "time", tenant |-> t, ver |-> ver, failed |-> failing,
                   status |-> IF c.raised THEN "raised" ELSE "success",
                   delivered |-> IF c.raised THEN {} ELSE DOMAIN c.results,
                   now |-> clock + 1]
        /\ UNCHANGED <<customerVars, product_metrics, product_table_ok, eval>>

\* The table product_metrics is no model of the application: it exists, and
\* accepts the statement, or not, as the database was set up.
InitAgg ==
    /\ customer_metrics = {}
    /\ nextId = 1
    /\ clock = 0
    /\ run = [w \in Workers |-> Idle]
    /\ everCommitted = {}
    /\ product_metrics = {}
    /\ product_table_ok \in BOOLEAN
    /\ agg = NoAggregate
    /\ eval = NoEval

NextAgg ==
    \/ \E t \in Tenants, ver \in 1..MaxVer, failing \in FailureChoices(ProductMetricNames),
          dbOk \in BOOLEAN : ProductCalculateAll(t, ver, failing, dbOk)
    \/ \E t \in Tenants, ver \in 1..MaxVer, failing \in FailureChoices(DiscountMetricNames) :
          DiscountCalculateAll(t, ver, failing)
    \/ \E t \in Tenants, ver \in 1..MaxVer, failing \in FailureChoices(TimeMetricNames) :
          TimeCalculateAll(t, ver, failing)

SpecAgg == InitAgg /\ [][NextAgg]_vars

\* ------------------------------------------------------- metric functions
\* The metric functions are modelled on exact fractions: <<n, d>> is n/d, d > 0.
\* Every comparison the code makes between a computed value and a threshold
\* has the same outcome on the fractions as on the code's floats for the
\* inputs used here (a quotient equals a threshold only when it is exact).
Rat(n, d) == <<n, d>>

Gt(a, b) == a[1] * b[2] > b[1] * a[2]

Ge(a, b) == a[1] * b[2] >= b[1] * a[2]

RatEq(a, b) == a[1] * b[2] = b[1] * a[2]

RatSub(a, b) == <<a[1] * b[2] - b[1] * a[2], a[2] * b[2]>>

\* a / b for b > 0
RatDiv(a, b) == <<a[1] * b[2], a[2] * b[1]>>

\* Python's min(a, b) and max(a, b): the first argument unless the second is
\* strictly smaller (greater).
PyMin(a, b) == IF Gt(a, b) THEN b ELSE a

PyMax(a, b) == IF Gt(b, a) THEN b ELSE a

\* _calc_score: the threshold list of a metric.
Thresholds(metric) ==
    CASE metric = "recency" -> <<Rat(7, 1), Rat(30, 1), Rat(90, 1), Rat(180, 1)>>
      [] metric = "frequency" -> <<Rat(1, 10), Rat(1, 4), Rat(1, 2), Rat(1, 1)>>
      [] OTHER -> <<Rat(1000, 1), Rat(5000, 1), Rat(15000, 1), Rat(50000, 1)>>

\* Faulty variant of Exceeds, used to test the properties below: a value equal to a threshold counts as exceeding it.
ExceedsOrEquals(value, threshold) == Ge(value, threshold)

\* if value > threshold
Exceeds(value, threshold) == Gt(value, threshold)

\* The for loop of _calc_score from index i (0-based) on, with its break.
RECURSIVE ScoreLoop(_, _, _, _, _)
ScoreLoop(value, thresholds, i, score, reverse) ==
    IF i >= Len(thresholds) THEN score
    ELSE IF Exceeds(value, thresholds[i + 1])
         THEN ScoreLoop(value, thresholds, i + 1,
                        IF ~reverse THEN i + 2 ELSE Len(thresholds) - i, reverse)
         ELSE IF reverse THEN Len(thresholds) - i + 1 ELSE score

IntMin(a, b) == IF b < a THEN b ELSE a

IntMax(a, b) == IF b > a THEN b ELSE a

_calc_score(value, metric, reverse) ==
    IntMin(5, IntMax(1, ScoreLoop(value, Thresholds(metric), 0, 1, reverse)))

\* Faulty variant of IsReverse, used to test the properties below: recency is scored like the other two metrics.
IsReverseNever(metric) == FALSE

\* The reverse argument _calc_rfm_metrics passes for each metric.
IsReverse(metric) == metric = "recency"

\* RFM_SEGMENTS, with the segment names in English: Champions (Чемпионы),
\* Loyal (Лояльные), Potential loyal (Потенциальные лояльные), Need attention
\* (Требуют внимания), Sleeping (Засыпающие), At risk (В зоне риска),
\* Leaving (Уходящие), Lost (Потерянные), New (Новые).
RFM_SEGMENTS ==
    [k \in {<<5, 5, 5>>, <<5, 5, 4>>, <<5, 4, 5>>} |-> "Champions"]
    @@ [k \in {<<4, 5, 5>>, <<5, 4, 4>>, <<4, 5, 4>>, <<4, 4, 5>>, <<4, 4, 4>>} |-> "Loyal"]
    @@ [k \in {<<5, 3, 3>>, <<4, 3, 3>>} |-> "Potential loyal"]
    @@ [k \in {<<3, 3, 3>>, <<3, 3, 4>>, <<3, 4, 3>>} |-> "Need attention"]
    @@ [k \in {<<2, 3, 3>>, <<2, 2, 3>>, <<2, 3, 2>>, <<3, 2, 2>>} |-> "Sleeping"]
    @@ [k \in {<<2, 2, 2>>, <<1, 2, 2>>, <<2, 1, 2>>, <<2, 2, 1>>} |-> "At risk"]
    @@ [k \in {<<1, 1, 2>>, <<1, 2, 1>>, <<2, 1, 1>>} |-> "Leaving"]
    @@ [k \in {<<1, 1, 1>>} |-> "Lost"]
    @@ [k \in {<<5, 1, 1>>, <<5, 1, 2>>, <<4, 1, 1>>, <<4, 1, 2>>} |-> "New"]

\* The value Python's None has among the segment names.
None == "None"

\* Faulty variant of FallbackSegment, used to test the properties below: the branch on F is missing.
FallbackSegmentByR(r, f) ==
    IF r >= 4 THEN "Loyal" ELSE IF r >= 2 THEN "Sleeping" ELSE "Lost"

\* The default segments of _get_rfm_segment.
FallbackSegment(r, f) ==
    IF r >= 4 THEN (IF f >= 3 THEN "Loyal" ELSE "New")
    ELSE IF r >= 2 THEN "Sleeping"
    ELSE "Lost"

\* Faulty variant of _get_rfm_segment, used to test the properties below: a key missing from the table yields None.
_get_rfm_segment_table_only(r, f, m) ==
    IF <<r, f, m>> \in DOMAIN RFM_SEGMENTS THEN RFM_SEGMENTS[<<r, f, m>>] ELSE None

_get_rfm_segment(r, f, m) ==
    IF <<r, f, m>> \in DOMAIN RFM_SEGMENTS THEN RFM_SEGMENTS[<<r, f, m>>]
    ELSE FallbackSegment(r, f)

\* Faulty variant of Months, used to test the properties below: the lower bound of one month is missing.
MonthsUnclamped(days) == Rat(days, 30)

\* months = max(1, (last_order - first_order).days / 30)
Months(days) == PyMax(Rat(1, 1), Rat(days, 30))

\* Faulty variant of _calc_rfm_metrics_of, used to test the properties below: the months are counted from the first order to the processing date.
_calc_rfm_metrics_since_first(today, first, last, orders, monetary) ==
    LET recency == today - last
        frequency == RatDiv(Rat(orders, 1), Months(today - first))
        r_score == _calc_score(Rat(recency, 1), "recency", IsReverse("recency"))
        f_score == _calc_score(frequency, "frequency", IsReverse("frequency"))
        m_score == _calc_score(Rat(monetary, 1), "monetary", IsReverse("monetary"))
    IN  [recency |-> recency,
         frequency |-> frequency,
         monetary |-> monetary,
         rfm_score |-> r_score * 100 + f_score * 10 + m_score,
         rfm_segment |-> _get_rfm_segment(r_score, f_score, m_score)]

\* _calc_rfm_metrics for a customer with orders orders, the first on day first
\* and the last on day last, spending monetary in all.
_calc_rfm_metrics_of(today, first, last, orders, monetary) ==
    LET recency == today - last
        frequency == RatDiv(Rat(orders, 1), Months(last - first))
        r_score == _calc_score(Rat(recency, 1), "recency", IsReverse("recency"))
        f_score == _calc_score(frequency, "frequency", IsReverse("frequency"))
        m_score == _calc_score(Rat(monetary, 1), "monetary", IsReverse("monetary"))
    IN  [recency |-> recency,
         frequency |-> frequency,
         monetary |-> monetary,
         rfm_score |-> r_score * 100 + f_score * 10 + m_score,
         rfm_segment |-> _get_rfm_segment(r_score, f_score, m_score)]

\* settings (config.py): the lifecycle thresholds.
new_customer_days == 30

sleeping_threshold == Rat(3, 2)

churned_threshold == Rat(3, 1)

\* Faulty variant of LifecycleStage, used to test the properties below: the flags are tested in the opposite order.
LifecycleStageChurnedFirst(is_new, is_active, is_sleeping, is_churned) ==
    IF is_churned THEN "Churned"
    ELSE IF is_sleeping THEN "Sleeping"
    ELSE IF is_active THEN "Active"
    ELSE IF is_new THEN "New"
    ELSE "Undetermined"

\* The if/elif chain of _calc_lifecycle_metrics that picks the stage label:
\* New (Новый), Active (Активный), Sleeping (Засыпающий), Churned
\* (Потерянный), Undetermined (Неопределён).
LifecycleStage(is_new, is_active, is_sleeping, is_churned) ==
    IF is_new THEN "New"
    ELSE IF is_active THEN "Active"
    ELSE IF is_sleeping THEN "Sleeping"
    ELSE IF is_churned THEN "Churned"
    ELSE "Undetermined"

\* Faulty variant of _calc_lifecycle_metrics_of, used to test the properties below: a sleep factor equal to the churned threshold is not yet churned.
_calc_lifecycle_metrics_above(recency, avg_days, age_days) ==
    LET sleep_factor == IF Gt(avg_days, Rat(0, 1))
                        THEN RatDiv(Rat(recency, 1), avg_days)
                        ELSE Rat(recency, 30)
        is_new == age_days <= new_customer_days
        is_churned == Gt(sleep_factor, churned_threshold)
        is_sleeping == Ge(sleep_factor, sleeping_threshold) /\ ~is_churned
        is_active == ~is_new /\ ~is_sleeping /\ ~is_churned
        gap == RatSub(Rat(recency, 1), avg_days)
    IN  [lifecycle_stage |-> LifecycleStage(is_new, is_active, is_sleeping, is_churned),
         sleep_days |-> IF Gt(Rat(recency, 1), avg_days) THEN gap[1] \div gap[2] ELSE 0,
         sleep_factor |-> sleep_factor,
         is_new |-> is_new,
         is_active |-> is_active,
         is_sleeping |-> is_sleeping,
         is_churned |-> is_churned]

\* _calc_lifecycle_metrics from the three values it reads in prev_metrics
\* (cohort, which only formats first_order_date, is left out).
_calc_lifecycle_metrics_of(recency, avg_days, age_days) ==
    LET sleep_factor == IF Gt(avg_days, Rat(0, 1))
                        THEN RatDiv(Rat(recency, 1), avg_days)
                        ELSE Rat(recency, 30)
        is_new == age_days <= new_customer_days
        is_churned == Ge(sleep_factor, churned_threshold)
        is_sleeping == Ge(sleep_factor, sleeping_threshold) /\ ~is_churned
        is_active == ~is_new /\ ~is_sleeping /\ ~is_churned
        gap == RatSub(Rat(recency, 1), avg_days)
    IN  [lifecycle_stage |-> LifecycleStage(is_new, is_active, is_sleeping, is_churned),
         sleep_days |-> IF Gt(Rat(recency, 1), avg_days) THEN gap[1] \div gap[2] ELSE 0,
         sleep_factor |-> sleep_factor,
         is_new |-> is_new,
         is_active |-> is_active,
         is_sleeping |-> is_sleeping,
         is_churned |-> is_churned]

\* Faulty variant of ValueProbAlive, used to test the properties below: the divisor differs from the predictive module's.
ValueProbAliveHalved(sleep_factor) ==
    RatSub(Rat(1, 1), PyMin(Rat(1, 1), RatDiv(sleep_factor, Rat(2, 1))))

\* _calc_value_metrics: prob_alive = 1 - min(1, sleep_factor / 3)
ValueProbAlive(sleep_factor) ==
    RatSub(Rat(1, 1), PyMin(Rat(1, 1), RatDiv(sleep_factor, Rat(3, 1))))

\* _calc_predictive_metrics: prob_alive = max(0, 1 - min(1, sleep_factor / 3))
PredictiveProbAlive(sleep_factor) ==
    PyMax(Rat(0, 1), RatSub(Rat(1, 1), PyMin(Rat(1, 1), RatDiv(sleep_factor, Rat(3, 1)))))

\* Sum of revenue[i] over the ids in S.
RECURSIVE SumOver(_, _)
SumOver(revenue, S) ==
    IF S = {} THEN 0
    ELSE LET i == CHOOSE x \in S : TRUE
         IN  revenue[i] + SumOver(revenue, S \ {i})

\* Faulty variant of CumulativeRevenue, used to test the properties below: the running total is taken row by row (a ROWS frame), products of equal revenue in the order of their ids.
CumulativeRevenueByRow(revenue, p) ==
    SumOver(revenue, {q \in DOMAIN revenue :
                         \/ revenue[q] > revenue[p]
                         \/ revenue[q] = revenue[p] /\ q <= p})

\* SUM(revenue) OVER (ORDER BY revenue DESC): the default window frame is
\* RANGE UNBOUNDED PRECEDING .. CURRENT ROW, which takes in the peers of the
\* current row, so products of equal revenue all get the same running total.
CumulativeRevenue(revenue, p) ==
    SumOver(revenue, {q \in DOMAIN revenue : revenue[q] >= revenue[p]})

\* CASE WHEN cumulative_revenue <= total_revenue * 0.8 THEN 'A' WHEN ... * 0.95
AbcClass(cumulative, total) ==
    IF 100 * cumulative <= 80 * total THEN "A"
    ELSE IF 100 * cumulative <= 95 * total THEN "B"
    ELSE "C"

\* calc_product_abc over the products DOMAIN revenue: the class of every
\* product and the summary by class.
calc_product_abc(revenue) ==
    LET total == SumOver(revenue, DOMAIN revenue)
        abc == [p \in DOMAIN revenue |-> AbcClass(CumulativeRevenue(revenue, p), total)]
        InClass(k) == {p \in DOMAIN revenue : abc[p] = k}
    IN  [abc_class |-> abc,
         summary |-> [k \in {"A", "B", "C"} |->
                        [count |-> Cardinality(InClass(k)),
                         revenue |-> SumOver(revenue, InClass(k))]]]

\* The sequences that list every element of S once.
Orderings(S) ==
    {o \in [1..Cardinality(S) -> S] : \A i, j \in 1..Cardinality(S) : o[i] = o[j] => i = j}

\* The row sequences the query of _calc_product_metrics may return for the
\* purchase rows: ORDER BY total_qty DESC fixes no order among equal quantities.
QueryOrders(rows) ==
    {o \in Orderings(rows) : \A i, j \in 1..Len(o) : i < j => o[i].total_qty >= o[j].total_qty}

\* category_counts after the loop over the rows, as the sequence of its keys
\* in insertion order; rows without a category are skipped.
RECURSIVE CategoryKeys(_)
CategoryKeys(rows) ==
    IF rows = <<>> THEN <<>>
    ELSE LET before == CategoryKeys(SubSeq(rows, 1, Len(rows) - 1))
             cat == rows[Len(rows)].category
         IN  IF cat = None \/ \E i \in 1..Len(before) : before[i] = cat
             THEN before ELSE Append(before, cat)

CategoryCount(rows, cat) ==
    LET idx == {i \in 1..Len(rows) : rows[i].category = cat}
        qty == [i \in idx |-> rows[i].total_qty]
    IN  SumOver(qty, idx)

\* max(category_counts, key=category_counts.get): the first key, in insertion
\* order, that has the greatest count.
FavoriteCategory(rows) ==
    LET keys == CategoryKeys(rows)
        best == CHOOSE i \in 1..Len(keys) :
                  /\ \A j \in 1..Len(keys) :
                       CategoryCount(rows, keys[j]) <= CategoryCount(rows, keys[i])
                  /\ \A j \in 1..(i - 1) :
                       CategoryCount(rows, keys[j]) < CategoryCount(rows, keys[i])
    IN  IF keys = <<>> THEN None ELSE keys[best]

\* Faulty variant of ProductPreferences, used to test the properties below: the early return for no rows is missing, and the favourites of no rows are empty strings.
ProductPreferencesUnguarded(rows) ==
    [favorite_category |-> IF rows = <<>> THEN "" ELSE FavoriteCategory(rows),
     favorite_sku |-> IF rows = <<>> THEN "" ELSE rows[1].product_name,
     category_diversity |-> Len(CategoryKeys(rows)),
     sku_diversity |-> Len(rows),
     cross_sell_potential |-> PyMin(Rat(1, 1), Rat(Len(CategoryKeys(rows)), 5))]

\* _calc_product_metrics from the rows the query returned.
ProductPreferences(rows) ==
    IF rows = <<>>
    THEN [favorite_category |-> None, favorite_sku |-> None, category_diversity |-> 0,
          sku_diversity |-> 0, cross_sell_potential |-> Rat(0, 1)]
    ELSE [favorite_category |-> FavoriteCategory(rows),
          favorite_sku |-> rows[1].product_name,
          category_diversity |-> Len(CategoryKeys(rows)),
          sku_diversity |-> Len(rows),
          cross_sell_potential |-> PyMin(Rat(1, 1), Rat(Len(CategoryKeys(rows)), 5))]

\* ------------------------------------- temporal, value, predictive metrics
RECURSIVE Gcd(_, _)
Gcd(a, b) == IF b = 0 THEN a ELSE Gcd(b, a % b)

\* The fraction a in lowest terms.
Reduce(a) ==
    LET g == Gcd(IF a[1] < 0 THEN -a[1] ELSE a[1], a[2])
    IN  <<a[1] \div g, a[2] \div g>>

RatAdd(a, b) == Reduce(<<a[1] * b[2] + b[1] * a[2], a[2] * b[2]>>)

\* The product, with the common factors taken out before multiplying.
RatMul(a, b) ==
    LET x == Reduce(<<a[1], b[2]>>)
        y == Reduce(<<b[1], a[2]>>)
    IN  <<x[1] * y[1], x[2] * y[2]>>

\* Time stamps count half days, so that an order has a time of day: an even
\* stamp is a midnight, the odd stamp after it the noon of that day.
\* Timedelta.days: the whole days of a difference of two stamps, rounded down
\* (the difference from a midnight to the noon before it has -1 days).
Days(delta) == delta \div 2

\* dates.diff().dropna().dt.days: the whole days between consecutive orders.
Diffs(dates) == [k \in 1..(Len(dates) - 1) |-> Days(dates[k + 1] - dates[k])]

\* np.mean
Mean(diffs) == Reduce(Rat(SumOver(diffs, DOMAIN diffs), Len(diffs)))

\* np.median: the middle value of the sorted values, or the mean of the two
\* middle values.
Median(diffs) ==
    LET m == Len(diffs)
        sorted == CHOOSE s \in [1..m -> Range(diffs)] :
                      /\ \A k \in 1..(m - 1) : s[k] <= s[k + 1]
                      /\ \A v \in Range(diffs) :
                            Cardinality({k \in 1..m : s[k] = v}) =
                                Cardinality({k \in 1..m : diffs[k] = v})
    IN  IF m % 2 = 1 THEN Rat(sorted[(m + 1) \div 2], 1)
        ELSE Reduce(Rat(sorted[m \div 2] + sorted[m \div 2 + 1], 2))

\* m * m times the variance of the m values: m * sum of squares - square of sum.
ScaledVariance(diffs) ==
    Len(diffs) * SumOver([k \in DOMAIN diffs |-> diffs[k] * diffs[k]], DOMAIN diffs)
        - SumOver(diffs, DOMAIN diffs) * SumOver(diffs, DOMAIN diffs)

\* The integers whose square is v: one when v is a perfect square, else none.
SquareRoots(v, most) == {r \in 0..most : r * r = v}

\* np.std, the population standard deviation: sqrt(ScaledVariance) / m. It is
\* computed for the lists whose standard deviation is a fraction.
Std(diffs) ==
    LET m == Len(diffs)
        root == CHOOSE r \in SquareRoots(ScaledVariance(diffs), m * SumOver(diffs, DOMAIN diffs)) : TRUE
    IN  Reduce(Rat(root, m))

\* Faulty variant of Regularity, used to test the properties below: the coefficient of variation is subtracted from 1.
RegularityLinear(std_days, avg_days) ==
    IF Gt(avg_days, Rat(0, 1))
      THEN RatSub(Rat(1, 1), RatDiv(std_days, avg_days))
      ELSE Rat(0, 1)

\* regularity = 1 / (1 + std_days / avg_days) if avg_days > 0 else 0
Regularity(std_days, avg_days) ==
    IF Gt(avg_days, Rat(0, 1))
      THEN Reduce(RatDiv(Rat(1, 1), RatAdd(Rat(1, 1), RatDiv(std_days, avg_days))))
      ELSE Rat(0, 1)

\* Faulty variant of SingleOrderGap, used to test the properties below: the default of _calc_lifecycle_metrics is used.
SingleOrderGapThirty(age_days) == Rat(30, 1)

\* _calc_temporal_metrics, else branch: with one order the gap metrics are
\* the customer's age.
SingleOrderGap(age_days) == Rat(age_days, 1)

\* _calc_temporal_metrics for the sorted order stamps dates, processed on the
\* day that starts at the stamp today (expected_next_order, days_overdue and
\* the active months are left out).
_calc_temporal_metrics_of(today, dates) ==
    LET age_days == Days(today - dates[1])
        diffs == Diffs(dates)
        avg_days == IF Len(dates) > 1 THEN Mean(diffs) ELSE SingleOrderGap(age_days)
        median_days == IF Len(dates) > 1 THEN Median(diffs) ELSE SingleOrderGap(age_days)
        std_days == IF Len(dates) > 1 /\ Len(diffs) > 1 THEN Std(diffs) ELSE Rat(0, 1)
    IN  [customer_age_days |-> age_days,
         avg_days_between |-> avg_days,
         median_days_between |-> median_days,
         std_days_between |-> std_days,
         purchase_regularity |-> Regularity(std_days, avg_days)]

\* _calc_value_metrics: the CLV segments VIP, High (Высокий), Medium
\* (Средний), Low (Низкий).
ClvSegment(clv_predicted) ==
    IF Ge(clv_predicted, Rat(50000, 1)) THEN "VIP"
    ELSE IF Ge(clv_predicted, Rat(20000, 1)) THEN "High"
    ELSE IF Ge(clv_predicted, Rat(5000, 1)) THEN "Medium"
    ELSE "Low"

\* _calc_value_metrics, the predicted CLV (the ABC and XYZ segments and the
\* trends are left out).
_calc_value_metrics_of(sleep_factor, frequency, avg_check) ==
    LET prob_alive == ValueProbAlive(sleep_factor)
        clv_predicted == RatMul(RatMul(RatMul(Rat(avg_check, 1), frequency), Rat(12, 1)),
                                prob_alive)
    IN  [clv_predicted |-> clv_predicted,
         clv_segment |-> ClvSegment(clv_predicted)]

\* _calc_predictive_metrics: the churn risk segments High (Высокий), Medium
\* (Средний), Low (Низкий).
ChurnRisk(churn_probability) ==
    IF Ge(churn_probability, Rat(7, 10)) THEN "High"
    ELSE IF Ge(churn_probability, Rat(3, 10)) THEN "Medium"
    ELSE "Low"

\* Faulty variant of _calc_predictive_metrics_of, used to test the properties below: the predictions leave prob_alive out.
_calc_predictive_metrics_undiscounted(sleep_factor, frequency, avg_check) ==
    LET prob_alive == Reduce(PredictiveProbAlive(sleep_factor))
        churn_probability == Reduce(RatSub(Rat(1, 1), prob_alive))
    IN  [prob_alive |-> prob_alive,
         churn_probability |-> churn_probability,
         churn_risk_segment |-> ChurnRisk(churn_probability),
         predicted_orders_30d |-> Reduce(frequency),
         predicted_orders_90d |-> RatMul(frequency, Rat(3, 1)),
         predicted_revenue_30d |-> RatMul(frequency, Rat(avg_check, 1))]

_calc_predictive_metrics_of(sleep_factor, frequency, avg_check) ==
    LET prob_alive == Reduce(PredictiveProbAlive(sleep_factor))
        churn_probability == Reduce(RatSub(Rat(1, 1), prob_alive))
        predicted_30d == RatMul(frequency, prob_alive)
    IN  [prob_alive |-> prob_alive,
         churn_probability |-> churn_probability,
         churn_risk_segment |-> ChurnRisk(churn_probability),
         predicted_orders_30d |-> predicted_30d,
         predicted_orders_90d |-> RatMul(RatMul(frequency, Rat(3, 1)), prob_alive),
         predicted_revenue_30d |-> RatMul(predicted_30d, Rat(avg_check, 1))]

\* _calculate_customer_metrics, steps 1 to 6, for a customer whose orders
\* were placed at the stamps dates, each of the same amount: every family
\* reads the metrics of the families before it.
_calculate_customer_metrics_of(today, dates, amount) ==
    LET total_orders == Len(dates)
        first_order == dates[1]
        last_order == dates[total_orders]
        recency == Days(today - last_order)
        span == Days(last_order - first_order)
        rfm == _calc_rfm_metrics_of(recency + span, 0, span, total_orders,
                                    total_orders * amount)
        temporal == _calc_temporal_metrics_of(today, dates)
        lifecycle == _calc_lifecycle_metrics_of(rfm.recency, temporal.avg_days_between,
                                                temporal.customer_age_days)
    IN  [basic |-> [total_orders |-> total_orders,
                    total_revenue |-> total_orders * amount,
                    avg_check |-> amount],
         rfm |-> rfm,
         temporal |-> temporal,
         lifecycle |-> lifecycle,
         value |-> _calc_value_metrics_of(lifecycle.sleep_factor, rfm.frequency, amount),
         predictive |-> _calc_predictive_metrics_of(lifecycle.sleep_factor, rfm.frequency,
                                                    amount)]

\* ------------------------------------------------------- discount metrics
\* A transaction is its amount and its amount_before_discount.
\* calc_discount_brackets: the discount_pct column of the discount_data CTE.
discount_pct(t) ==
    IF t.amount_before_discount > 0
      THEN Rat(100 * (t.amount_before_discount - t.amount), t.amount_before_discount)
      ELSE Rat(0, 1)

\* The bracket labels; the first is '0% (без скидки)' in the source.
DiscountBrackets ==
    <<"0% (no discount)", "1-5%", "6-10%", "11-15%", "16-20%", "21-30%", "31-50%", "50%+">>

\* Faulty variant of discount_bracket, used to test the properties below: the upper end of a bracket is excluded.
discount_bracket_exclusive(pct) ==
    IF RatEq(pct, Rat(0, 1)) THEN DiscountBrackets[1]
    ELSE IF Gt(Rat(5, 1), pct) THEN DiscountBrackets[2]
    ELSE IF Gt(Rat(10, 1), pct) THEN DiscountBrackets[3]
    ELSE IF Gt(Rat(15, 1), pct) THEN DiscountBrackets[4]
    ELSE IF Gt(Rat(20, 1), pct) THEN DiscountBrackets[5]
    ELSE IF Gt(Rat(30, 1), pct) THEN DiscountBrackets[6]
    ELSE IF Gt(Rat(50, 1), pct) THEN DiscountBrackets[7]
    ELSE DiscountBrackets[8]

\* calc_discount_brackets: the CASE expression, its branches tried in order.
discount_bracket(pct) ==
    IF RatEq(pct, Rat(0, 1)) THEN DiscountBrackets[1]
    ELSE IF Ge(Rat(5, 1), pct) THEN DiscountBrackets[2]
    ELSE IF Ge(Rat(10, 1), pct) THEN DiscountBrackets[3]
    ELSE IF Ge(Rat(15, 1), pct) THEN DiscountBrackets[4]
    ELSE IF Ge(Rat(20, 1), pct) THEN DiscountBrackets[5]
    ELSE IF Ge(Rat(30, 1), pct) THEN DiscountBrackets[6]
    ELSE IF Ge(Rat(50, 1), pct) THEN DiscountBrackets[7]
    ELSE DiscountBrackets[8]

\* calc_discount_brackets: GROUP BY the bracket, one row per bracket that has
\* transactions, with COUNT(*) as transactions.
calc_discount_brackets(txs) ==
    LET bracket_of(k) == discount_bracket(discount_pct(txs[k]))
    IN  [b \in {bracket_of(k) : k \in DOMAIN txs} |->
           [bracket |-> b,
            transactions |-> Cardinality({k \in DOMAIN txs : bracket_of(k) = b})]]

\* calc_overall_discount_stats: COUNT(*) and the SUM over the CASE that tests
\* amount < amount_before_discount.
calc_overall_discount_stats(txs) ==
    [total_transactions |-> Len(txs),
     discounted_transactions |->
        Cardinality({k \in DOMAIN txs : txs[k].amount < txs[k].amount_before_discount})]

\* ------------------------------------- the metric functions on their inputs
\* Recency values on both sides of every threshold, and a date in the future.
DayValues == {-3, 0, 7, 8, 30, 31, 90, 91, 180, 181, 400}

FrequencyValues ==
    {Rat(1, 20), Rat(1, 10), Rat(11, 100), Rat(1, 4), Rat(3, 10), Rat(1, 2),
     Rat(3, 5), Rat(1, 1), Rat(2, 1)}

MonetaryValues == {0, 1000, 1001, 5000, 5001, 15000, 15001, 50000, 50001}

ScoreValues(metric) ==
    CASE metric = "recency" -> {Rat(d, 1) : d \in DayValues}
      [] metric = "frequency" -> FrequencyValues
      [] OTHER -> {Rat(m, 1) : m \in MonetaryValues}

\* Two values of one metric, the first not above the second.
ScoreInputs ==
    UNION {{i \in [metric : {m}, v1 : ScoreValues(m), v2 : ScoreValues(m)] : Ge(i.v2, i.v1)}
           : m \in {"recency", "frequency", "monetary"}}

SegmentInputs == (1..5) \X (1..5) \X (1..5)

\* The days of 2024, a leap year, before each month.
DaysBeforeMonth2024 == <<0, 31, 60, 91, 121, 152, 182, 213, 244, 274, 305, 335>>

\* A date of 2024 as the number of days since 2024-01-01, which is what the
\* differences of dates in _calc_rfm_metrics count.
Date2024(month, day) == DaysBeforeMonth2024[month] + day - 1

\* Orders of 1000 on 2024-01-01 and of 1500 on 2024-02-01, processed on
\* 2024-03-01.
TwoOrderCustomer ==
    [today |-> Date2024(3, 1), first |-> Date2024(1, 1), last |-> Date2024(2, 1),
     orders |-> 2, monetary |-> 1000 + 1500]

\* A customer's orders: the first on day 0, the last on day last, orders in
\* all (one order is both first and last), seen from day today.
RfmInputs ==
    {i \in [today : 0..800, first : {0}, last : {0, 1, 29, 30, 31, 60, 600},
            orders : 1..MaxOrders, monetary : {500, 20000}] :
        /\ i.today - i.last \in {0, 8, 200}
        /\ i.orders = 1 => i.last = i.first}
    \cup {TwoOrderCustomer}

LifecycleDays == {-3, 0, 1, 10, 19, 29, 30, 31, 45, 90, 200}

\* recency, mean gap between orders and age; the first order is never after
\* the last one.
LifecycleInputs ==
    {i \in [recency : LifecycleDays, age_days : LifecycleDays,
            avg_days : {Rat(-3, 1), Rat(0, 1), Rat(1, 1), Rat(3, 2), Rat(10, 1),
                        Rat(30, 1), Rat(60, 1)}] :
        i.recency <= i.age_days}

RevenueValues == {10, 30, 50, 60}

\* Products 1..n, each with a positive revenue.
AbcInputs == UNION {[1..n -> RevenueValues] : n \in 1..MaxProducts}

ProductNames == {"p1", "p2"}

Categories == {"c1", "c2", None}

\* The grouped purchase rows of one customer: one row per product.
PurchaseInputs ==
    UNION {{{[product_name |-> n, category |-> f[n].category, total_qty |-> f[n].total_qty]
               : n \in N}
            : f \in [N -> [category : Categories, total_qty : 1..MaxQty]]}
           : N \in SUBSET ProductNames}

\* Amounts on both sides of every bracket boundary, a surcharge, half
\* percents, and transactions without a positive amount_before_discount.
TransactionValues ==
    {[amount |-> a, amount_before_discount |-> 100]
        : a \in {110, 100, 99, 95, 94, 90, 89, 85, 84, 80, 79, 70, 69, 50, 49, 0}}
    \cup {[amount |-> a, amount_before_discount |-> 200] : a \in {199, 189}}
    \cup {[amount |-> a, amount_before_discount |-> 0] : a \in {0, 10}}

\* The transactions of one tenant.
DiscountInputs == UNION {[1..n -> TransactionValues] : n \in 0..MaxTransactions}

\* Order stamps from 200 days before the processing date, whose midnight is
\* stamp 0, to its noon, which is stamp 1.
OrderStamps == {-400, -380, -180, -120, -80, -60, -40, -20, 0, 1}

\* The stamps of S in ascending order.
SortedStamps(S) ==
    CHOOSE s \in [1..Cardinality(S) -> S] :
        \A j, k \in 1..Cardinality(S) : j < k => s[j] < s[k]

\* The lists of gaps whose standard deviation is a fraction.
HasRationalStd(dates) ==
    \/ Len(dates) <= 2
    \/ SquareRoots(ScaledVariance(Diffs(dates)),
                   Len(dates) * SumOver(Diffs(dates), DOMAIN Diffs(dates))) # {}

\* The histories of one customer: up to MaxOrders orders at different
\* stamps, each of the same amount.
HistoryInputs ==
    {h \in [today : {0},
            dates : {SortedStamps(S) : S \in {T \in SUBSET OrderStamps :
                                                  Cardinality(T) \in 1..MaxOrders}},
            amount : {0, 300, 5000}] :
        HasRationalStd(h.dates)}

\* A function is about to be applied to input i.
Pending(op, i) == [op |-> op, in |-> i, out |-> Null, done |-> FALSE]

InitFn ==
    /\ customer_metrics = {}
    /\ nextId = 1
    /\ clock = 0
    /\ run = [w \in Workers |-> Idle]
    /\ everCommitted = {}
    /\ product_metrics = {}
    /\ product_table_ok = FALSE
    /\ agg = NoAggregate
    /\ \/ \E i \in ScoreInputs : eval = Pending("_calc_score", i)
       \/ \E i \in SegmentInputs : eval = Pending("_get_rfm_segment", i)
       \/ \E i \in RfmInputs : eval = Pending("_calc_rfm_metrics", i)
       \/ \E i \in LifecycleInputs : eval = Pending("_calc_lifecycle_metrics", i)
       \/ \E i \in AbcInputs : eval = Pending("calc_product_abc", i)
       \/ \E i \in PurchaseInputs : eval = Pending("_calc_product_metrics", i)
       \/ \E i \in DiscountInputs : eval = Pending("calc_discount", i)
       \/ \E i \in HistoryInputs : eval = Pending("_calculate_customer_metrics", i)

Returns(out) ==
    /\ eval' = [eval EXCEPT !.out = out, !.done = TRUE]
    /\ UNCHANGED <<customerVars, clock, aggVars>>

\* _calc_score on both values, called as _calc_rfm_metrics calls it.
ApplyCalcScore ==
    /\ eval.op = "_calc_score" /\ ~eval.done
    /\ LET i == eval.in
       IN  Returns(<<_calc_score(i.v1, i.metric, IsReverse(i.metric)),
                     _calc_score(i.v2, i.metric, IsReverse(i.metric))>>)

ApplyGetRfmSegment ==
    /\ eval.op = "_get_rfm_segment" /\ ~eval.done
    /\ Returns(_get_rfm_segment(eval.in[1], eval.in[2], eval.in[3]))

ApplyCalcRfmMetrics ==
    /\ eval.op = "_calc_rfm_metrics" /\ ~eval.done
    /\ LET i == eval.in
       IN  Returns(_calc_rfm_metrics_of(i.today, i.first, i.last, i.orders, i.monetary))

\* _calculate_customer_metrics steps 4 to 6: the lifecycle metrics, then the
\* value and the predictive module, each reading sleep_factor in prev_metrics.
ApplyCalcLifecycleMetrics ==
    /\ eval.op = "_calc_lifecycle_metrics" /\ ~eval.done
    /\ LET i == eval.in
           lifecycle == _calc_lifecycle_metrics_of(i.recency, i.avg_days, i.age_days)
       IN  Returns([lifecycle |-> lifecycle,
                    value_prob_alive |-> ValueProbAlive(lifecycle.sleep_factor),
                    prob_alive |-> PredictiveProbAlive(lifecycle.sleep_factor)])

ApplyCalcProductAbc ==
    /\ eval.op = "calc_product_abc" /\ ~eval.done
    /\ Returns(calc_product_abc(eval.in))

\* Two recomputations of one customer's product preferences over the same
\* purchase rows; each query returns the rows in an order of the database's.
ApplyCalcProductMetrics ==
    /\ eval.op = "_calc_product_metrics" /\ ~eval.done
    /\ \E o1, o2 \in QueryOrders(eval.in) :
         Returns(<<ProductPreferences(o1), ProductPreferences(o2)>>)

\* DiscountMetricsCalculator.calculate_all: the overall statistics and the
\* brackets, both read from the tenant's transactions.
ApplyCalcDiscount ==
    /\ eval.op = "calc_discount" /\ ~eval.done
    /\ Returns([overall_stats |-> calc_overall_discount_stats(eval.in),
                discount_brackets |-> calc_discount_brackets(eval.in)])

ApplyCalculateCustomerMetrics ==
    /\ eval.op = "_calculate_customer_metrics" /\ ~eval.done
    /\ Returns(_calculate_customer_metrics_of(eval.in.today, eval.in.dates, eval.in.amount))

NextFn ==
    \/ ApplyCalcScore
    \/ ApplyGetRfmSegment
    \/ ApplyCalcRfmMetrics
    \/ ApplyCalcLifecycleMetrics
    \/ ApplyCalcProductAbc
    \/ ApplyCalcProductMetrics
    \/ ApplyCalcDiscount
    \/ ApplyCalculateCustomerMetrics

SpecFn == InitFn /\ [][NextFn]_vars

\* ======================================================== properties
\* The rows the store holds for one (tenant, customer) key.
RowsOf(t, c) == {r \in customer_metrics : r.tenant_id = t /\ r.customer_id = c}

\* The value every metric family of customer c has when computed from
\* snapshot snap: the value family also depends on the whole frame.
Expected(snap, c) ==
    [f \in Fields |-> IF f = "value" THEN <<c, snap.ver, snap.n>> ELSE <<c, snap.ver>>]

\* The customers of a run for which _save_metrics has returned.
SavedIn(r) == r.committed \cup {o.customer_id : o \in r.pending}

\* C1: after any sequence of per-customer runs made one after another, for the
\* same or different tenants and over changing snapshots, the store holds at
\* most one record per (tenant, customer) key, and exactly one for every key
\* whose record some run has saved and committed.
C1_OneRecordPerKey ==
    /\ \A r1, r2 \in customer_metrics :
         (r1.tenant_id = r2.tenant_id /\ r1.customer_id = r2.customer_id) => r1 = r2
    /\ \A k \in everCommitted : Cardinality(RowsOf(k[1], k[2])) = 1

\* A second run has updated the row the first run created and inserted another.
C1_Witness ==
    /\ \E w \in Workers : run[w].result.status = "success" /\ run[w].now = 2
    /\ \E r1, r2 \in customer_metrics :
         /\ r1.id = 1 /\ r1.calculated_at = 2
         /\ r2.id = 2 /\ r2.calculated_at = 2 /\ r2.tenant_id = r1.tenant_id

C3_CountsAddUp ==
    \A w \in Workers :
      LET r == run[w]
          written == {c \in 1..r.snap.n :
                        \E row \in RowsOf(r.tenant, c) : row.calculated_at = r.now}
      IN  r.result.status = "success" =>
            /\ r.result.customers + r.result.errors = r.snap.n
            /\ r.result.customers = Cardinality(written)
            /\ r.result.errors = r.snap.n - Cardinality(written)

\* A successful run that made a periodic commit and counted an error.
C3_Witness ==
    \E w \in Workers :
      /\ run[w].result.status = "success"
      /\ run[w].result.errors >= 1
      /\ run[w].result.customers >= BatchSize

\* C4: records are committed after every BatchSize-th saved customer and once
\* after the loop: while the session is usable the uncommitted records are
\* the calculated % BatchSize last saved ones (never more than BatchSize),
\* every record a commit of this run has written stays in the store whatever
\* happens later in the run, and a run that returns "success" has committed
\* every record it saved.
C4_BatchedCommits ==
    \A w \in Workers :
      LET r == run[w]
      IN  r.loaded =>
            /\ Cardinality(r.pending) <= BatchSize
            /\ (r.pc = "loop" /\ r.usable) =>
                 /\ Cardinality(r.pending) = r.calculated % BatchSize
                 /\ Cardinality(r.committed) = r.calculated - (r.calculated % BatchSize)
            /\ \A c \in r.committed :
                 \E row \in RowsOf(r.tenant, c) : row.calculated_at = r.now
            /\ r.result.status = "success" =>
                 /\ r.pending = {}
                 /\ r.committed = (1..r.snap.n) \ r.snap.bad

\* A run failed at its final commit after its first batch was committed.
C4_Witness ==
    \E w \in Workers :
      /\ run[w].result.status = "http_500"
      /\ Cardinality(run[w].committed) = BatchSize
      /\ \A c \in run[w].committed :
           \E row \in RowsOf(run[w].tenant, c) : row.calculated_at = run[w].now

\* C5: a recomputation overwrites every metric field of an existing record
\* with the value computed in this run and stamps calculated_at; the metrics
\* dict holds the same keys, all of them, for every customer.
C5_FullOverwrite ==
    \A w \in Workers :
      LET r == run[w]
      IN  \A c \in r.committed :
            /\ DOMAIN _calculate_customer_metrics(r.snap, c) = Fields
            /\ \A row \in RowsOf(r.tenant, c) :
                 /\ row.calculated_at = r.now
                 /\ \A f \in Fields : row.m[f] = Expected(r.snap, c)[f]

\* The second run has rewritten the record the first run created.
C5_Witness ==
    \E w \in Workers :
      /\ run[w].pc = "done" /\ run[w].now = 2
      /\ \E row \in customer_metrics :
           /\ row.id = 1 /\ row.calculated_at = 2 /\ row.customer_id \in run[w].committed
           /\ row.tenant_id = run[w].tenant
           /\ row.m = Expected(run[w].snap, row.customer_id)
           /\ run[w].snap.ver = 2

\* C6: a run for tenant T deletes no record and changes only records keyed
\* (T, c) for customers c of T's snapshot: every step keeps every row's
\* primary key and key columns, and a step that changes the table is a step
\* of a run that leaves the rows of other tenants, and of customers outside
\* its snapshot, as they are.
C6_Frame ==
    [][ /\ \A row \in customer_metrics :
             \E kept \in customer_metrics' :
               /\ kept.id = row.id
               /\ kept.tenant_id = row.tenant_id
               /\ kept.customer_id = row.customer_id
        /\ customer_metrics' # customer_metrics =>
             \E w \in Workers :
               /\ run[w].pc = "loop"
               /\ run'[w] # run[w]
               /\ \A row \in customer_metrics :
                    (row.tenant_id # run[w].tenant \/ row.customer_id \notin 1..run[w].snap.n)
                      => row \in customer_metrics'
      ]_vars

\* A run wrote records while the store held a record of the same tenant for a
\* customer that has no transaction in the run's snapshot.
C6_Witness ==
    \E w \in Workers :
      /\ run[w].result.status = "success" /\ run[w].committed # {}
      /\ \E row \in customer_metrics :
           /\ row.tenant_id = run[w].tenant
           /\ row.customer_id > run[w].snap.n
           /\ row.calculated_at < run[w].now

\* C7: when the tenant has no transaction with a customer id, calculate_all
\* reports status "no_data" with zero customers, raises nothing, and the
\* request leaves the store as it was.
C7_NoData ==
    /\ [](\A w \in Workers :
            (run[w].pc = "done" /\ run[w].loaded /\ run[w].snap.n = 0) =>
              /\ run[w].result = [status |-> "no_data", customers |-> 0, errors |-> 0]
              /\ run[w].committed = {})
    /\ [][\A w \in Workers :
            (run'[w] # run[w] /\ run'[w].loaded /\ run'[w].snap.n = 0) =>
              customer_metrics' = customer_metrics]_vars

\* A no_data run over a store that holds records of an earlier run.
C7_Witness ==
    \E w \in Workers :
      /\ run[w].result.status = "no_data"
      /\ \E row \in customer_metrics : row.tenant_id = run[w].tenant

\* C8: for every tenant at most one per-customer run is active at any time.
C8_OneRunPerTenant ==
    \A w1, w2 \in Workers :
      (w1 # w2 /\ run[w1].pc = "loop" /\ run[w2].pc = "loop")
        => run[w1].tenant # run[w2].tenant

\* The metric names of the module of the last aggregate run.
NamesOf(module) ==
    CASE module = "product" -> Range(ProductMetricNames)
      [] module = "discount" -> Range(DiscountMetricNames)
      [] module = "time" -> Range(TimeMetricNames)
      [] OTHER -> {}

\* C9: when the query of one aggregate metric fails, only that metric is
\* missing: the run still returns, and delivers every other metric.
C9_AggregateFailureIsolated ==
    agg.failed # {} =>
      /\ agg.status = "success"
      /\ agg.delivered = NamesOf(agg.module) \ agg.failed

\* C10: after an aggregate run returned "success" for tenant T, the store
\* holds exactly one document per (T, metric name) for every metric of the
\* module, holding the value computed in this run.
C10_OneDocumentPerMetric ==
    agg.status = "success" =>
      \A m \in NamesOf(agg.module) :
        LET docs == {d \in product_metrics : d.tenant_id = agg.tenant /\ d.metric_name = m}
        IN  /\ Cardinality(docs) = 1
            /\ \A d \in docs : d.metric_data = <<m, agg.ver>> /\ d.calculated_at = agg.now

\* C11: the per-customer recomputation is a function of the facts and the
\* processing date: two recomputations of a customer's metrics over the same
\* purchase rows give the same value in every field.
C11_RecomputeIdentical ==
    (eval.op = "_calc_product_metrics" /\ eval.done) => eval.out[1] = eval.out[2]

\* C12: for every recency, mean gap and age, exactly one of the four flags
\* is_new, is_active, is_sleeping, is_churned of _calc_lifecycle_metrics is true.
C12_ExactlyOneFlag ==
    (eval.op = "_calc_lifecycle_metrics" /\ eval.done) =>
      Cardinality({f \in {"is_new", "is_active", "is_sleeping", "is_churned"} :
                     eval.out.lifecycle[f]}) = 1

\* C13: every triple (R, F, M) of 1..5, all 125 of them, is mapped by
\* _get_rfm_segment to a segment name, never to None: the table's name for
\* a triple of the table, one of the four default names otherwise.
C13_SegmentDefined ==
    /\ Cardinality(SegmentInputs) = 125
    /\ (eval.op = "_get_rfm_segment" /\ eval.done) =>
         /\ eval.out # None
         /\ eval.out \in {"Champions", "Loyal", "Potential loyal", "Need attention",
                          "Sleeping", "At risk", "Leaving", "Lost", "New"}
         /\ eval.in \in DOMAIN RFM_SEGMENTS => eval.out = RFM_SEGMENTS[eval.in]
         /\ eval.in \notin DOMAIN RFM_SEGMENTS =>
              eval.out \in {"Loyal", "New", "Sleeping", "Lost"}

\* A triple outside the table has been given a segment.
C13_Witness ==
    /\ eval.op = "_get_rfm_segment" /\ eval.done
    /\ eval.in = <<3, 1, 5>>
    /\ eval.out = "Sleeping"

\* C16: the table has 29 entries, and for every triple (R, F, M) of 1..5
\* outside it _get_rfm_segment returns Loyal when R >= 4 and F >= 3, New when
\* R >= 4 and F < 3, Sleeping when R is 2 or 3 and Lost when R is 1, whatever
\* M is.
C16_FallbackRule ==
    /\ Cardinality(DOMAIN RFM_SEGMENTS) = 29
    /\ (eval.op = "_get_rfm_segment" /\ eval.done /\ eval.in \notin DOMAIN RFM_SEGMENTS) =>
         LET r == eval.in[1]
             f == eval.in[2]
         IN  /\ (r >= 4 /\ f >= 3) => eval.out = "Loyal"
             /\ (r >= 4 /\ f < 3) => eval.out = "New"
             /\ r \in {2, 3} => eval.out = "Sleeping"
             /\ r = 1 => eval.out = "Lost"

\* A recent customer with a low F score outside the table is New.
C16_Witness ==
    /\ eval.op = "_get_rfm_segment" /\ eval.done
    /\ eval.in = <<5, 2, 5>>
    /\ eval.in \notin DOMAIN RFM_SEGMENTS
    /\ eval.out = "New"

\* C14: the RFM scores are monotone: of two recency values the smaller never
\* scores lower, of two frequencies and of two monetary values the smaller
\* never scores higher.
C14_ScoresMonotone ==
    (eval.op = "_calc_score" /\ eval.done) =>
      /\ eval.in.v1[1] * eval.in.v2[2] <= eval.in.v2[1] * eval.in.v1[2]
      /\ eval.in.metric = "recency" => eval.out[1] >= eval.out[2]
      /\ eval.in.metric \in {"frequency", "monetary"} => eval.out[1] <= eval.out[2]

\* Recency 7 and recency 8 lie on the two sides of a threshold.
C14_Witness ==
    /\ eval.op = "_calc_score" /\ eval.done
    /\ eval.in.metric = "recency"
    /\ eval.in.v1 = <<7, 1>> /\ eval.in.v2 = <<8, 1>>
    /\ eval.out = <<5, 4>>

\* The number of the thresholds ts that the fraction v strictly exceeds.
ExceededIn(v, ts) == Cardinality({t \in ts : v[1] * t[2] > t[1] * v[2]})

\* The score the fixed thresholds give a value of a metric.
ScoreByCount(metric, v) ==
    CASE metric = "recency" -> 5 - ExceededIn(v, {<<7, 1>>, <<30, 1>>, <<90, 1>>, <<180, 1>>})
      [] metric = "frequency" -> 1 + ExceededIn(v, {<<1, 10>>, <<1, 4>>, <<1, 2>>, <<1, 1>>})
      [] metric = "monetary" ->
           1 + ExceededIn(v, {<<1000, 1>>, <<5000, 1>>, <<15000, 1>>, <<50000, 1>>})

\* C15: _calc_score returns an integer of 1..5: for frequency and monetary 1
\* plus the number of thresholds the value strictly exceeds, for recency 5
\* minus that number; a value equal to a threshold does not exceed it.
C15_ScoreByThresholds ==
    (eval.op = "_calc_score" /\ eval.done) =>
      /\ eval.out[1] \in 1..5 /\ eval.out[2] \in 1..5
      /\ eval.out[1] = ScoreByCount(eval.in.metric, eval.in.v1)
      /\ eval.out[2] = ScoreByCount(eval.in.metric, eval.in.v2)

\* A frequency of exactly 0.25 scores 2, one of 0.3 scores 3.
C15_Witness ==
    /\ eval.op = "_calc_score" /\ eval.done
    /\ eval.in.metric = "frequency"
    /\ eval.in.v1 = <<1, 4>> /\ eval.in.v2 = <<3, 10>>
    /\ eval.out = <<2, 3>>

\* C17: frequency is the order count divided by max(1, days between first and
\* last order / 30): it is the order count when the orders span at most 30
\* days, and it is always positive and at most the order count.
C17_Frequency ==
    (eval.op = "_calc_rfm_metrics" /\ eval.done) =>
      LET days == eval.in.last - eval.in.first
          n == eval.in.orders
          f == eval.out.frequency
      IN  /\ f[2] > 0
          /\ days > 30 => f[1] * days = 30 * n * f[2]
          /\ days <= 30 => f[1] = n * f[2]
          /\ f[1] > 0
          /\ f[1] <= n * f[2]

\* Three orders over 60 days are 1.5 orders a month.
C17_Witness ==
    /\ eval.op = "_calc_rfm_metrics" /\ eval.done
    /\ eval.in.last - eval.in.first = 60 /\ eval.in.orders = 3
    /\ 2 * eval.out.frequency[1] = 3 * eval.out.frequency[2]

\* C18: the stage label is the first true flag in the order New, Active,
\* Sleeping, Churned: a customer whose is_new flag is true is labelled New
\* even when is_sleeping or is_churned is true as well, and as one flag at
\* least is always true the label Undetermined is never produced.
C18_StagePriority ==
    (eval.op = "_calc_lifecycle_metrics" /\ eval.done) =>
      LET l == eval.out.lifecycle
      IN  /\ l.is_new \/ l.is_active \/ l.is_sleeping \/ l.is_churned
          /\ l.lifecycle_stage # "Undetermined"
          /\ l.is_new => l.lifecycle_stage = "New"
          /\ (~l.is_new /\ l.is_active) => l.lifecycle_stage = "Active"
          /\ (~l.is_new /\ ~l.is_active /\ l.is_sleeping) => l.lifecycle_stage = "Sleeping"
          /\ (~l.is_new /\ ~l.is_active /\ ~l.is_sleeping /\ l.is_churned)
               => l.lifecycle_stage = "Churned"

\* A customer that is both new and churned is labelled New.
C18_Witness ==
    /\ eval.op = "_calc_lifecycle_metrics" /\ eval.done
    /\ eval.out.lifecycle.is_new /\ eval.out.lifecycle.is_churned
    /\ eval.out.lifecycle.lifecycle_stage = "New"

\* C19: for every sleep_factor the probability-alive proxy _calc_value_metrics
\* uses for clv_predicted equals the prob_alive _calc_predictive_metrics
\* stores for the same customer, and both are max(0, 1 - min(1, sleep_factor / 3)).
C19_ProbAliveAgree ==
    (eval.op = "_calc_lifecycle_metrics" /\ eval.done) =>
      LET v == eval.out.value_prob_alive
          p == eval.out.prob_alive
          sf == eval.out.lifecycle.sleep_factor
      IN  /\ v[2] > 0 /\ p[2] > 0
          /\ v[1] * p[2] = p[1] * v[2]
          /\ sf[1] >= 3 * sf[2] => p[1] = 0
          /\ sf[1] < 3 * sf[2] => 3 * sf[2] * p[1] = (3 * sf[2] - sf[1]) * p[2]

\* A sleep factor of 1.5 gives both modules a probability of one half.
C19_Witness ==
    /\ eval.op = "_calc_lifecycle_metrics" /\ eval.done
    /\ 2 * eval.out.lifecycle.sleep_factor[1] = 3 * eval.out.lifecycle.sleep_factor[2]
    /\ 2 * eval.out.value_prob_alive[1] = eval.out.value_prob_alive[2]
    /\ 2 * eval.out.prob_alive[1] = eval.out.prob_alive[2]

\* The orders that list the products by descending revenue.
DescendingOrders(revenue) ==
    {o \in Orderings(DOMAIN revenue) :
       \A i, j \in 1..Len(o) : i < j => revenue[o[i]] >= revenue[o[j]]}

\* The revenue of the first i products of the order o.
RunningRevenue(revenue, o, i) == SumOver([k \in 1..i |-> revenue[o[k]]], 1..i)

\* C20: for a non-empty set of products with positive revenue,
\* calc_product_abc gives every product one class of A, B, C: taking the
\* products in descending revenue order, A when the cumulative revenue up to
\* and including the product is at most 80% of the total, B when at most 95%,
\* C otherwise; the three summary counts add up to the number of products and
\* the revenue of class A is at most 80% of the total plus one item's revenue.
C20_AbcByCumulativeRevenue ==
    (eval.op = "calc_product_abc" /\ eval.done) =>
      LET revenue == eval.in
          total == SumOver(revenue, DOMAIN revenue)
          abc == eval.out.abc_class
          summary == eval.out.summary
          ByShare(cumulative) == IF 100 * cumulative <= 80 * total THEN "A"
                                 ELSE IF 100 * cumulative <= 95 * total THEN "B"
                                 ELSE "C"
      IN  /\ \A p \in DOMAIN revenue : abc[p] \in {"A", "B", "C"}
          /\ \E o \in DescendingOrders(revenue) :
               \A i \in 1..Len(o) : abc[o[i]] = ByShare(RunningRevenue(revenue, o, i))
          /\ summary["A"].count + summary["B"].count + summary["C"].count
               = Cardinality(DOMAIN revenue)
          /\ \E p \in DOMAIN revenue :
               100 * summary["A"].revenue <= 80 * total + 100 * revenue[p]

\* The upper ends of the brackets between 0% and 50%+.
BracketEnds == <<5, 10, 15, 20, 30, 50>>

\* The position in DiscountBrackets of the bracket the specification gives to
\* a discount percentage that is not negative: 0 has the first, a percentage
\* up to 5 the second, and so on; one above 50 has the last.
ClaimedBracket(pct) ==
    IF RatEq(pct, Rat(0, 1)) THEN 1
    ELSE 2 + Cardinality({j \in DOMAIN BracketEnds : Gt(pct, Rat(BracketEnds[j], 1))})

\* 100 * (amount_before_discount - amount) / amount_before_discount, and 0
\* when amount_before_discount is not positive.
ClaimedPct(t) ==
    IF t.amount_before_discount <= 0 THEN Rat(0, 1)
    ELSE Rat(100 * t.amount_before_discount - 100 * t.amount, t.amount_before_discount)

\* The transactions a bracket's row reports, 0 when the bracket has no row.
TransactionsIn(rows, b) == IF b \in DOMAIN rows THEN rows[b].transactions ELSE 0

\* C21: calc_discount_brackets returns at most one row per bracket label, the
\* rows' transaction counts add up to the number of transactions, and when no
\* transaction has a negative discount percentage each bracket counts the
\* transactions whose percentage is in its range: 0 in the 0% bracket, above 0
\* up to 5 in "1-5%", above 5 up to 10 in "6-10%", ..., above 50 in "50%+".
\* amount 90 with amount_before_discount 100 is counted in "6-10%".
C21_DiscountBrackets ==
    (eval.op = "calc_discount" /\ eval.done) =>
        LET txs == eval.in
            rows == eval.out.discount_brackets
        IN  /\ DOMAIN rows \subseteq Range(DiscountBrackets)
            /\ \A b \in DOMAIN rows : rows[b].bracket = b /\ rows[b].transactions >= 1
            /\ SumOver([b \in DOMAIN rows |-> rows[b].transactions], DOMAIN rows) = Len(txs)
            /\ (\A k \in DOMAIN txs : Ge(ClaimedPct(txs[k]), Rat(0, 1))) =>
                  \A i \in DOMAIN DiscountBrackets :
                      TransactionsIn(rows, DiscountBrackets[i]) =
                          Cardinality({k \in DOMAIN txs : ClaimedBracket(ClaimedPct(txs[k])) = i})
            /\ \A k \in DOMAIN txs :
                  (txs[k].amount = 90 /\ txs[k].amount_before_discount = 100) =>
                      /\ RatEq(ClaimedPct(txs[k]), Rat(10, 1))
                      /\ TransactionsIn(rows, "6-10%") >= 1

\* Two transactions, one at 10% and one without a discount, were bracketed.
C21_Witness ==
    /\ eval.op = "calc_discount" /\ eval.done
    /\ eval.in = <<[amount |-> 90, amount_before_discount |-> 100],
                   [amount |-> 100, amount_before_discount |-> 100]>>
    /\ DOMAIN eval.out.discount_brackets = {"0% (no discount)", "6-10%"}

\* C30: the number of transactions in the 0% bracket of calc_discount_brackets
\* is total_transactions - discounted_transactions of
\* calc_overall_discount_stats over the same transactions.
C30_ZeroBracketIsUndiscounted ==
    (eval.op = "calc_discount" /\ eval.done) =>
        TransactionsIn(eval.out.discount_brackets, DiscountBrackets[1]) =
            eval.out.overall_stats.total_transactions
                - eval.out.overall_stats.discounted_transactions

\* The segment is the table's entry for the scores of rfm_score, or the
\* fallback rule's segment when the table has none.
SegmentFromTableOrFallback(rfm) ==
    LET r == rfm.rfm_score \div 100
        f == (rfm.rfm_score \div 10) % 10
        m == rfm.rfm_score % 10
    IN  IF <<r, f, m>> \in DOMAIN RFM_SEGMENTS
          THEN rfm.rfm_segment = RFM_SEGMENTS[<<r, f, m>>]
          ELSE rfm.rfm_segment \in {"Loyal", "New", "Sleeping", "Lost"}

\* C22 as amended: for orders of 1000 on 2024-01-01 and of 1500 on 2024-02-01
\* processed on 2024-03-01, _calc_rfm_metrics yields recency 29, frequency
\* 2 / (31 / 30) = 60/31, about 1.94 orders per month, monetary 2500, an R
\* score of at least 4 and a segment from the table or the fallback rule.
C22_TwoOrderScenario ==
    (eval.op = "_calc_rfm_metrics" /\ eval.done /\ eval.in = TwoOrderCustomer) =>
        /\ eval.out.recency = 29
        /\ RatEq(eval.out.frequency, Rat(60, 31))
        /\ Gt(eval.out.frequency, Rat(193, 100)) /\ Gt(Rat(194, 100), eval.out.frequency)
        /\ eval.out.monetary = 2500
        /\ eval.out.rfm_score \div 100 >= 4
        /\ SegmentFromTableOrFallback(eval.out)

\* The scenario's customer was computed: scores 4, 5, 2 and, the table having
\* no such entry, the fallback segment Loyal.
C22_Witness ==
    /\ eval.op = "_calc_rfm_metrics" /\ eval.done
    /\ eval.in = TwoOrderCustomer
    /\ eval.in.today = 60 /\ eval.in.last = 31
    /\ eval.out.rfm_score = 452
    /\ eval.out.rfm_segment = "Loyal"

\* C22 as the specification states it: the same scenario with a frequency of
\* about 0.51 orders per month (within 0.005 of it).
C22_TwoOrderScenarioAsStated ==
    (eval.op = "_calc_rfm_metrics" /\ eval.done /\ eval.in = TwoOrderCustomer) =>
        /\ eval.out.recency = 29
        /\ Ge(eval.out.frequency, Rat(505, 1000)) /\ Gt(Rat(515, 1000), eval.out.frequency)
        /\ eval.out.monetary = 2500
        /\ eval.out.rfm_score \div 100 >= 4
        /\ SegmentFromTableOrFallback(eval.out)

\* C23: for a customer with a single order placed d > 0 days before the
\* processing date, the mean and the median gap are the age d with standard
\* deviation 0, sleep_factor is recency / d = 1, is_new is true exactly when
\* d <= 30, is_sleeping and is_churned are false, and the stage is New or
\* Active.
C23_SingleOrder ==
    (eval.op = "_calculate_customer_metrics" /\ eval.done /\ Len(eval.in.dates) = 1) =>
        LET d == (eval.in.today - eval.in.dates[1]) \div 2
            t == eval.out.temporal
            l == eval.out.lifecycle
        IN  d > 0 =>
              /\ t.customer_age_days = d
              /\ t.avg_days_between = <<d, 1>>
              /\ t.median_days_between = <<d, 1>>
              /\ t.std_days_between[1] = 0
              /\ eval.out.rfm.recency = d
              /\ l.sleep_factor[1] = l.sleep_factor[2]
              /\ l.is_new <=> d <= 30
              /\ ~l.is_sleeping /\ ~l.is_churned
              /\ l.lifecycle_stage = (IF d <= 30 THEN "New" ELSE "Active")

\* A single order 40 days before the processing date: not new, and Active.
C23_Witness ==
    /\ eval.op = "_calculate_customer_metrics" /\ eval.done
    /\ eval.in.dates = <<-80>>
    /\ eval.out.temporal.customer_age_days = 40
    /\ eval.out.temporal.avg_days_between = <<40, 1>>
    /\ ~eval.out.lifecycle.is_new
    /\ eval.out.lifecycle.lifecycle_stage = "Active"

\* The metrics of the six families computed before the product preferences,
\* for a customer with one order, as one dict.
MetricsBeforeProduct ==
    LET m == _calculate_customer_metrics_of(0, <<-80>>, 300)
    IN  DictUpdate(DictUpdate(DictUpdate(DictUpdate(DictUpdate(
            m.basic, m.rfm), m.temporal), m.lifecycle), m.value), m.predictive)

\* C24: for a customer with no line items _calc_product_metrics returns
\* favorite_category and favorite_sku null and category_diversity,
\* sku_diversity and cross_sell_potential zero, and merging this result into
\* the customer's metrics leaves every metric of the other families as it was.
C24_NoLineItems ==
    (eval.op = "_calc_product_metrics" /\ eval.done /\ eval.in = {}) =>
        \A j \in {1, 2} :
            LET product == eval.out[j]
                merged == DictUpdate(MetricsBeforeProduct, product)
            IN  /\ DOMAIN product = {"favorite_category", "favorite_sku", "category_diversity",
                                     "sku_diversity", "cross_sell_potential"}
                /\ product.favorite_category = None
                /\ product.favorite_sku = None
                /\ product.category_diversity = 0
                /\ product.sku_diversity = 0
                /\ product.cross_sell_potential[1] = 0
                /\ DOMAIN merged = DOMAIN MetricsBeforeProduct \cup DOMAIN product
                /\ \A k \in DOMAIN MetricsBeforeProduct : merged[k] = MetricsBeforeProduct[k]

\* The product preferences of a customer without line items were computed.
C24_Witness ==
    /\ eval.op = "_calc_product_metrics" /\ eval.done
    /\ eval.in = {}
    /\ eval.out[1].favorite_sku = None
    /\ eval.out[1].sku_diversity = 0

\* C25: sleep_factor is recency divided by the mean gap, or by 30 when the
\* mean gap is not positive; is_churned holds exactly when sleep_factor >= 3.0,
\* is_sleeping exactly when 1.5 <= sleep_factor < 3.0, is_new exactly when
\* age_days <= 30, is_active exactly when none of the other three holds, and
\* is_sleeping and is_churned never hold together.
C25_LifecycleFlags ==
    (eval.op = "_calc_lifecycle_metrics" /\ eval.done) =>
        LET recency == eval.in.recency
            gap == eval.in.avg_days
            l == eval.out.lifecycle
            n == l.sleep_factor[1]
            d == l.sleep_factor[2]
        IN  /\ d > 0
            /\ gap[1] > 0 => n * gap[1] = recency * gap[2] * d
            /\ gap[1] <= 0 => 30 * n = recency * d
            /\ l.is_churned <=> n >= 3 * d
            /\ l.is_sleeping <=> (2 * n >= 3 * d /\ n < 3 * d)
            /\ l.is_new <=> eval.in.age_days <= 30
            /\ l.is_active <=> ~(l.is_new \/ l.is_sleeping \/ l.is_churned)
            /\ ~(l.is_sleeping /\ l.is_churned)

\* A sleep factor of exactly 3.0 (recency 30, mean gap 10) is churned and not
\* sleeping.
C25_Witness ==
    /\ eval.op = "_calc_lifecycle_metrics" /\ eval.done
    /\ eval.in.recency = 30 /\ eval.in.avg_days = <<10, 1>>
    /\ eval.out.lifecycle.is_churned
    /\ ~eval.out.lifecycle.is_sleeping

\* The whole days between consecutive orders of a history are all the same
\* (which they are when there is at most one gap).
AllGapsEqual(dates) ==
    \A j, k \in 1..(Len(dates) - 1) :
        (dates[j + 1] - dates[j]) \div 2 = (dates[k + 1] - dates[k]) \div 2

\* C26: when the mean gap is positive purchase_regularity is above 0 and at
\* most 1, and it is 1 exactly when the standard deviation is 0, that is when
\* all gaps are equal, as they are with a single gap or a single order; when
\* the mean gap is not positive purchase_regularity is 0.
C26_Regularity ==
    (eval.op = "_calculate_customer_metrics" /\ eval.done) =>
        LET t == eval.out.temporal
            reg == t.purchase_regularity
        IN  /\ reg[2] > 0
            /\ t.avg_days_between[1] > 0 =>
                  /\ reg[1] > 0 /\ reg[1] <= reg[2]
                  /\ reg[1] = reg[2] <=> t.std_days_between[1] = 0
                  /\ reg[1] = reg[2] <=> AllGapsEqual(eval.in.dates)
                  /\ Len(eval.in.dates) <= 2 => reg[1] = reg[2]
            /\ t.avg_days_between[1] <= 0 => reg[1] = 0

\* Gaps of 10 and 100 days: mean 55, standard deviation 45, regularity 0.55.
C26_Witness ==
    /\ eval.op = "_calculate_customer_metrics" /\ eval.done
    /\ eval.in.dates = <<-400, -380, -180>>
    /\ eval.out.temporal.avg_days_between = <<55, 1>>
    /\ eval.out.temporal.std_days_between = <<45, 1>>
    /\ eval.out.temporal.purchase_regularity = <<11, 20>>

\* C27: for every order history, one with orders time-stamped after the
\* midnight of the processing date included, prob_alive and churn_probability
\* are between 0 and 1, and predicted_orders_30d, predicted_orders_90d and
\* predicted_revenue_30d are not negative (the order amounts are not).
C27_ProbabilitiesInRange ==
    (eval.op = "_calculate_customer_metrics" /\ eval.done) =>
        LET p == eval.out.predictive
        IN  /\ p.prob_alive[1] >= 0 /\ p.prob_alive[1] <= p.prob_alive[2]
            /\ p.churn_probability[1] >= 0
            /\ p.churn_probability[1] <= p.churn_probability[2]
            /\ p.predicted_orders_30d[1] >= 0
            /\ p.predicted_orders_90d[1] >= 0
            /\ p.predicted_revenue_30d[1] >= 0

\* C28: a customer record with is_churned true has prob_alive 0,
\* churn_probability 1, churn risk High, predicted_orders_30d,
\* predicted_orders_90d, predicted_revenue_30d and clv_predicted 0 and the
\* lowest CLV segment; and a record with prob_alive 0 has is_churned true.
C28_ChurnedPredictsNothing ==
    (eval.op = "_calculate_customer_metrics" /\ eval.done) =>
        LET p == eval.out.predictive
            v == eval.out.value
        IN  /\ eval.out.lifecycle.is_churned =>
                  /\ p.prob_alive[1] = 0
                  /\ p.churn_probability[1] = p.churn_probability[2]
                  /\ p.churn_risk_segment = "High"
                  /\ p.predicted_orders_30d[1] = 0
                  /\ p.predicted_orders_90d[1] = 0
                  /\ p.predicted_revenue_30d[1] = 0
                  /\ v.clv_predicted[1] = 0
                  /\ v.clv_segment = "Low"
            /\ p.prob_alive[1] = 0 => eval.out.lifecycle.is_churned

\* Two orders of 5000 ten days apart, the last 190 days back: churned, and
\* nothing is predicted although the frequency is 2 orders a month.
C28_Witness ==
    /\ eval.op = "_calculate_customer_metrics" /\ eval.done
    /\ eval.in.dates = <<-400, -380>> /\ eval.in.amount = 5000
    /\ eval.out.rfm.frequency = <<2, 1>>
    /\ eval.out.lifecycle.is_churned
    /\ eval.out.predictive.prob_alive[1] = 0
    /\ eval.out.value.clv_segment = "Low"

\* The classes from best to worst.
ClassRank(k) == CASE k = "A" -> 1 [] k = "B" -> 2 [] OTHER -> 3

\* C29: in calc_product_abc, over products with positive revenue, the class
\* is monotone in the revenue: two products with equal revenue get the same
\* class, and a product with strictly higher revenue never gets a worse class.
C29_AbcMonotone ==
    (eval.op = "calc_product_abc" /\ eval.done) =>
        \A p, q \in DOMAIN eval.in :
            /\ eval.in[p] = eval.in[q] => eval.out.abc_class[p] = eval.out.abc_class[q]
            /\ eval.in[p] > eval.in[q] =>
                  ClassRank(eval.out.abc_class[p]) <= ClassRank(eval.out.abc_class[q])

\* Revenues 50, 30, 30: the two products of 30 share class C, and the product
\* of 50 has the better class A.
C29_Witness ==
    /\ eval.op = "calc_product_abc" /\ eval.done
    /\ eval.in = <<50, 30, 30>>
    /\ eval.out.abc_class = <<"A", "C", "C">>

====
